---- MODULE Spec2Model ----
(***************************************************************************)
(* Workflow orchestration and task dispatch of the Prowler API on a        *)
(* durable workflow engine: the scheduled-scan deduplicator embedded in    *)
(* setup_scheduled_scan_task, the workflow definitions, the registrar and  *)
(* the start-up of the task workers.                                       *)
(***************************************************************************)
EXTENDS Integers, Sequences, FiniteSets, TLC

\* Bounds of the model.
MaxInv == 2      \* invocations of setup_scheduled_scan_task
MaxDay == 2      \* calendar days the clock runs through
MaxRuns == 2     \* workflow runs the engine holds
MaxProcs == 2    \* runs of the start_littlehorse_workers command
MaxThreads == 4  \* workflow runs, spawned threads included, under repeated triggers

\* LITTLEHORSE_DEADLOCK_ATTEMPTS = env.int("LITTLEHORSE_DEADLOCK_ATTEMPTS", default=5)
LITTLEHORSE_DEADLOCK_ATTEMPTS == 5

InvIds == 1..MaxInv

\* The (tenant_id, provider_id) bindings the engine delivers.
InvocationInputs == {<<"t1", "p1">>, <<"t1", "p2">>}

VARIABLES
    scans,          \* the Scan table: a sequence of rows, a row's id is its index
    periodicTasks,  \* the PeriodicTask table
    today,          \* the current UTC calendar date
    inv,            \* the invocations of setup_scheduled_scan_task
    published,      \* the engine's workflow definitions, by name
    runs,           \* the engine's workflow runs: a run's id is its index
    cmd,            \* the start_littlehorse_workers process
    procs,          \* how many times the command has been run
    handler,        \* the task handler a worker is running
    launch          \* the latest call of start_workflow

dedupVars == <<scans, periodicTasks, today, inv>>
engineVars == <<published, runs>>
cmdVars == <<cmd, procs>>
callVars == <<handler, launch>>

vars == <<scans, periodicTasks, today, inv, published, runs, cmd, procs,
          handler, launch>>

-----------------------------------------------------------------------------
(* The store *)

\* name=f"scan-perform-scheduled-{provider_id}"
PeriodicTaskName(provider_id) == <<"scan-perform-scheduled", provider_id>>

\* The rows of PeriodicTask with the given name (PeriodicTask.objects.get).
PeriodicTaskGet(name) == {pt \in periodicTasks : pt.name = name}

ScanIds == 1..Len(scans)

\* rls_transaction(tenant_id): inside it only the tenant's rows are visible.
RlsVisible(tenant_id) == {id \in ScanIds : scans[id].tenant_id = tenant_id}

\* A filter that leaves out state=EXECUTING.
ExistingScanFilterAnyState(tenant_id, provider_id, task_id, date) ==
    {id \in RlsVisible(tenant_id) :
        /\ scans[id].tenant_id = tenant_id
        /\ scans[id].provider_id = provider_id
        /\ scans[id].trigger = "SCHEDULED"
        /\ scans[id].scheduler_task_id = task_id
        /\ scans[id].scheduled_at = date}

\* Scan.objects.filter(tenant_id, provider_id, trigger=SCHEDULED,
\*   state=EXECUTING, scheduler_task_id, scheduled_at__date=now().date())
ExistingScanFilter(tenant_id, provider_id, task_id, date) ==
    {id \in RlsVisible(tenant_id) :
        /\ scans[id].tenant_id = tenant_id
        /\ scans[id].provider_id = provider_id
        /\ scans[id].trigger = "SCHEDULED"
        /\ scans[id].state = "EXECUTING"
        /\ scans[id].scheduler_task_id = task_id
        /\ scans[id].scheduled_at = date}

\* A lookup that also asks for a scan scheduled today.
GetOrCreateLookupToday(tenant_id, provider_id, task_id) ==
    {id \in RlsVisible(tenant_id) :
        /\ scans[id].tenant_id = tenant_id
        /\ scans[id].provider_id = provider_id
        /\ scans[id].trigger = "SCHEDULED"
        /\ scans[id].state \in {"SCHEDULED", "AVAILABLE"}
        /\ scans[id].scheduler_task_id = task_id
        /\ scans[id].scheduled_at = today}

\* A lookup that leaves out the tenant: no row-level security, no tenant_id.
GetOrCreateLookupAnyTenant(tenant_id, provider_id, task_id) ==
    {id \in ScanIds :
        /\ scans[id].provider_id = provider_id
        /\ scans[id].trigger = "SCHEDULED"
        /\ scans[id].state \in {"SCHEDULED", "AVAILABLE"}
        /\ scans[id].scheduler_task_id = task_id}

\* The lookup of Scan.objects.get_or_create: the keyword arguments without
\* the defaults; it holds no date.
GetOrCreateLookup(tenant_id, provider_id, task_id) ==
    {id \in RlsVisible(tenant_id) :
        /\ scans[id].tenant_id = tenant_id
        /\ scans[id].provider_id = provider_id
        /\ scans[id].trigger = "SCHEDULED"
        /\ scans[id].state \in {"SCHEDULED", "AVAILABLE"}
        /\ scans[id].scheduler_task_id = task_id}

\* get_next_execution_datetime("scheduled", provider_id) of the daily
\* schedule, as a calendar date.
GetNextExecutionDatetime(now) == now + 1

\* scheduled_at without the day taken off.
ScheduledAtNextExecution(next_scan_datetime) == next_scan_datetime

\* "scheduled_at": next_scan_datetime - timedelta(days=1)
ScheduledAtDefault(next_scan_datetime) == next_scan_datetime - 1

\* The row get_or_create inserts: the exact-match keyword arguments and the
\* defaults.
NewScan(id, tenant_id, provider_id, task_id, scheduled_at) ==
    [id |-> id,
     tenant_id |-> tenant_id,
     provider_id |-> provider_id,
     trigger |-> "SCHEDULED",
     state |-> "SCHEDULED",
     name |-> "Daily scheduled scan",
     scheduler_task_id |-> task_id,
     scheduled_at |-> scheduled_at]

-----------------------------------------------------------------------------
(* setup_scheduled_scan_task *)

NoResult == [scan_id |-> 0, duplicate |-> FALSE, result |-> <<>>]

\* The result of a running scan without the duplicate tag.
DuplicateResultUntagged(scan) ==
    [scan_id |-> scan.id, duplicate |-> FALSE, result |-> <<scan>>]

\* {"scan_id": str(existing_scan.id), "duplicate": True, "result": serializer.data}
DuplicateResult(scan) ==
    [scan_id |-> scan.id, duplicate |-> TRUE, result |-> <<scan>>]

\* {"scan_id": str(scan_instance.id), "duplicate": False}
CreatedResult(scan_id) ==
    [scan_id |-> scan_id, duplicate |-> FALSE, result |-> <<>>]

IdleInv ==
    [pc |-> "idle", tenant_id |-> "", provider_id |-> "",
     periodic_task_id |-> 0, now_date |-> 0, scheduled_at |-> 0,
     result |-> NoResult, error |-> "", created |-> 0, attempts |-> 0,
     preDone |-> {}, preStates |-> {}, preLen |-> 0]

\* The rows of a (tenant, provider) whatever their state and date.
KeyScans(tenant_id, provider_id) ==
    {id \in ScanIds : /\ scans[id].tenant_id = tenant_id
                      /\ scans[id].provider_id = provider_id}

\* A lookup that makes up a scheduling task when none has the name.
LookupOrFabricatePeriodicTask(provider_id) ==
    LET found == PeriodicTaskGet(PeriodicTaskName(provider_id))
    IN  IF found = {} THEN Cardinality(periodicTasks) + 1
        ELSE (CHOOSE pt \in found : TRUE).id

\* What PeriodicTask.objects.get(name=...) gives: the id of the row, or 0
\* for DoesNotExist.
LookupPeriodicTask(provider_id) ==
    LET found == PeriodicTaskGet(PeriodicTaskName(provider_id))
    IN  IF found = {} THEN 0 ELSE (CHOOSE pt \in found : TRUE).id

\* The engine delivers the task: ctx.get_variable("tenant_id"),
\* ctx.get_variable("provider_id"); with rls_transaction(tenant_id):
\* periodic_task_instance = PeriodicTask.objects.get(...). The PeriodicTask
\* table is never written here, so the read is one step with the delivery.
Invoke(i, tenant_id, provider_id) ==
    /\ inv[i].pc = "idle"
    /\ \A k \in InvIds : k < i => inv[k].pc # "idle"
    /\ LET task_id == LookupPeriodicTask(provider_id)
           begun == [inv[i] EXCEPT
                        !.tenant_id = tenant_id,
                        !.provider_id = provider_id,
                        !.preDone = {k \in InvIds : inv[k].pc \in {"done", "failed"}},
                        !.preLen = Len(scans),
                        !.preStates = {scans[id].state :
                                         id \in KeyScans(tenant_id, provider_id)}]
       IN  IF task_id = 0
           THEN inv' = [inv EXCEPT ![i] =
                          [begun EXCEPT !.pc = "failed",
                                        !.error = "DoesNotExist"]]
           ELSE inv' = [inv EXCEPT ![i] =
                          [begun EXCEPT !.pc = "check",
                                        !.periodic_task_id = task_id]]
    /\ UNCHANGED <<scans, periodicTasks, today, engineVars, cmdVars, callVars>>

\* existing_scan = Scan.objects.filter(...).first(); if existing_scan: the
\* result is built from the row as read; the return leaves the
\* rls_transaction block, which commits (CommitReturn).
Check(i) ==
    /\ inv[i].pc = "check"
    /\ LET me == inv[i]
           existing == ExistingScanFilter(me.tenant_id, me.provider_id,
                                          me.periodic_task_id, today)
       IN  \/ /\ existing # {}
              /\ \E id \in existing :
                    inv' = [inv EXCEPT ![i] =
                              [@ EXCEPT !.pc = "commit",
                                        !.now_date = today,
                                        !.result = DuplicateResult(scans[id])]]
           \/ /\ existing = {}
              /\ inv' = [inv EXCEPT ![i] =
                           [@ EXCEPT !.pc = "get_or_create",
                                     !.now_date = today]]
    /\ UNCHANGED <<scans, periodicTasks, today, engineVars, cmdVars, callVars>>

\* next_scan_datetime = get_next_execution_datetime(...); the get() of
\* Scan.objects.get_or_create: one row is returned and the block is left
\* (CommitReturn), several raise MultipleObjectsReturned, none goes on to
\* create().
GetOrCreateGet(i) ==
    /\ inv[i].pc = "get_or_create"
    /\ LET me == inv[i]
           found == GetOrCreateLookup(me.tenant_id, me.provider_id,
                                      me.periodic_task_id)
           next_scan_datetime == GetNextExecutionDatetime(today)
       IN  \/ /\ Cardinality(found) = 1
              /\ inv' = [inv EXCEPT ![i] =
                           [@ EXCEPT !.pc = "commit",
                                     !.attempts = @ + 1,
                                     !.result = CreatedResult(CHOOSE id \in found : TRUE)]]
           \/ /\ Cardinality(found) > 1
              /\ inv' = [inv EXCEPT ![i] =
                           [@ EXCEPT !.pc = "failed",
                                     !.attempts = @ + 1,
                                     !.error = "MultipleObjectsReturned"]]
           \/ /\ found = {}
              /\ inv' = [inv EXCEPT ![i] =
                           [@ EXCEPT !.pc = "create",
                                     !.attempts = @ + 1,
                                     !.scheduled_at =
                                        ScheduledAtDefault(next_scan_datetime)]]
    /\ UNCHANGED <<scans, periodicTasks, today, engineVars, cmdVars, callVars>>

\* The create() of Scan.objects.get_or_create, the commit at the end of the
\* rls_transaction block and the return.
GetOrCreateCreate(i) ==
    /\ inv[i].pc = "create"
    /\ LET me == inv[i]
           id == Len(scans) + 1
       IN  /\ scans' = Append(scans, NewScan(id, me.tenant_id, me.provider_id,
                                             me.periodic_task_id, me.scheduled_at))
           /\ inv' = [inv EXCEPT ![i] =
                        [@ EXCEPT !.pc = "done",
                                  !.scheduled_at = 0,
                                  !.created = id,
                                  !.result = CreatedResult(id)]]
    /\ UNCHANGED <<periodicTasks, today, engineVars, cmdVars, callVars>>

\* The rls_transaction block is left after a read that found the scan: the
\* transaction, which wrote nothing, commits and the result is returned. The
\* row was read without a lock, so it may have moved on since.
CommitReturn(i) ==
    /\ inv[i].pc = "commit"
    /\ inv' = [inv EXCEPT ![i] = [@ EXCEPT !.pc = "done"]]
    /\ UNCHANGED <<scans, periodicTasks, today, engineVars, cmdVars, callVars>>

\* A conflict without the rollback: the row stays and the call fails.
TransactionConflictKeepsRow(i) ==
    /\ inv[i].pc = "create"
    /\ LET me == inv[i]
           id == Len(scans) + 1
       IN  /\ scans' = Append(scans, NewScan(id, me.tenant_id, me.provider_id,
                                             me.periodic_task_id, me.scheduled_at))
           /\ inv' = [inv EXCEPT ![i] =
                        [@ EXCEPT !.pc = "failed",
                                  !.scheduled_at = 0,
                                  !.error = "TransactionConflict"]]
    /\ UNCHANGED <<periodicTasks, today, engineVars, cmdVars, callVars>>

\* The INSERT of get_or_create ends in a transaction conflict (a deadlock,
\* an OperationalError): the rls_transaction block rolls back, and
\* except Exception: logger.error(...); raise. Nothing reads
\* LITTLEHORSE_DEADLOCK_ATTEMPTS and no loop runs the step again.
TransactionConflict(i) ==
    /\ inv[i].pc = "create"
    /\ inv' = [inv EXCEPT ![i] =
                 [@ EXCEPT !.pc = "failed",
                           !.scheduled_at = 0,
                           !.error = "TransactionConflict"]]
    /\ UNCHANGED <<scans, periodicTasks, today, engineVars, cmdVars, callVars>>

-----------------------------------------------------------------------------
(* The environment of the deduplicator *)

\* NONE -> SCHEDULED -> EXECUTING -> terminal
NextState(state) ==
    CASE state = "SCHEDULED" -> "EXECUTING"
      [] state = "AVAILABLE" -> "EXECUTING"
      [] state = "EXECUTING" -> "COMPLETED"
      [] OTHER -> state

\* A scan moves on: it starts executing, or it ends.
ScanTransition(id) ==
    /\ id \in ScanIds
    /\ scans[id].state \in {"SCHEDULED", "AVAILABLE", "EXECUTING"}
    /\ scans' = [scans EXCEPT ![id].state = NextState(@)]
    /\ UNCHANGED <<periodicTasks, today, inv, engineVars, cmdVars, callVars>>

\* Midnight UTC.
Tick ==
    /\ today < MaxDay
    /\ today' = today + 1
    /\ UNCHANGED <<scans, periodicTasks, inv, engineVars, cmdVars, callVars>>

\* The schedule of provider p1 exists, that of p2 does not.
InitPeriodicTasks == {[id |-> 1, name |-> PeriodicTaskName("p1")]}

\* The store at the start: empty, or holding the scan that an invocation of
\* the day before created for p1 of tenant t1 and that has not started since.
InitStores ==
    {<<>>, <<NewScan(1, "t1", "p1", 1, 0)>>}

\* The stores at the start when two tenants share the table: the scan of the
\* day before may also be another tenant's.
TenantStores ==
    InitStores \cup {<<NewScan(1, "t2", "p1", 1, 0)>>}

InitDedup ==
    /\ scans \in InitStores
    /\ periodicTasks = InitPeriodicTasks
    /\ today = 1
    /\ inv = [i \in InvIds |-> IdleInv]

NextDedup ==
    \/ \E i \in InvIds, a \in InvocationInputs : Invoke(i, a[1], a[2])
    \/ \E i \in InvIds : Check(i)
    \/ \E i \in InvIds : GetOrCreateGet(i)
    \/ \E i \in InvIds : GetOrCreateCreate(i)
    \/ \E i \in InvIds : CommitReturn(i)
    \/ \E id \in ScanIds : ScanTransition(id)
    \/ Tick

\* The bindings of two tenants that name the same provider.
TenantInputs == {<<"t1", "p1">>, <<"t2", "p1">>}

\* The deduplicator invoked for two tenants within one day.
NextTenants ==
    \/ \E i \in InvIds, a \in TenantInputs : Invoke(i, a[1], a[2])
    \/ \E i \in InvIds : Check(i)
    \/ \E i \in InvIds : GetOrCreateGet(i)
    \/ \E i \in InvIds : GetOrCreateCreate(i)
    \/ \E i \in InvIds : CommitReturn(i)
    \/ \E id \in ScanIds : ScanTransition(id)

\* The deduplicator on a store that may answer the INSERT with a conflict.
NextConflict ==
    \/ \E i \in InvIds, a \in InvocationInputs : Invoke(i, a[1], a[2])
    \/ \E i \in InvIds : Check(i)
    \/ \E i \in InvIds : GetOrCreateGet(i)
    \/ \E i \in InvIds : GetOrCreateCreate(i)
    \/ \E i \in InvIds : CommitReturn(i)
    \/ \E i \in InvIds : TransactionConflict(i)
    \/ \E id \in ScanIds : ScanTransition(id)
    \/ Tick

\* The deduplicator within one day, on a store that may answer the INSERT
\* with a conflict.
NextOneDay ==
    \/ \E i \in InvIds, a \in InvocationInputs : Invoke(i, a[1], a[2])
    \/ \E i \in InvIds : Check(i)
    \/ \E i \in InvIds : GetOrCreateGet(i)
    \/ \E i \in InvIds : GetOrCreateCreate(i)
    \/ \E i \in InvIds : CommitReturn(i)
    \/ \E i \in InvIds : TransactionConflict(i)
    \/ \E id \in ScanIds : ScanTransition(id)

-----------------------------------------------------------------------------
(* The workflow definitions *)

TaskNode(task, handle, args) ==
    [op |-> "execute_task", task |-> task, handle |-> handle, args |-> args,
     waits |-> {}, wf |-> ""]

WaitNode(handles) ==
    [op |-> "wait_for_tasks", task |-> "", handle |-> "", args |-> {},
     waits |-> handles, wf |-> ""]

SpawnNode(name, wf, args) ==
    [op |-> "spawn_thread", task |-> "", handle |-> name, args |-> args,
     waits |-> {}, wf |-> wf]

\* scan_wf with the barrier placed after generate-outputs.
ScanWorkflowLateBarrier ==
    << TaskNode("perform-prowler-scan", "scan_result",
                {"tenant_id", "scan_id", "provider_id", "checks_to_execute"}),
       TaskNode("create-compliance-requirements", "compliance_task",
                {"tenant_id", "scan_id"}),
       TaskNode("perform-scan-summary", "summary_task",
                {"tenant_id", "scan_id"}),
       TaskNode("generate-outputs", "generate_outputs",
                {"tenant_id", "scan_id", "provider_id"}),
       WaitNode({"compliance_task", "summary_task"}) >>

\* scan_wf with all four tasks run beside each other before one barrier.
ScanWorkflowAllBeside ==
    << TaskNode("perform-prowler-scan", "scan_result",
                {"tenant_id", "scan_id", "provider_id", "checks_to_execute"}),
       TaskNode("create-compliance-requirements", "compliance_task",
                {"tenant_id", "scan_id"}),
       TaskNode("perform-scan-summary", "summary_task",
                {"tenant_id", "scan_id"}),
       TaskNode("generate-outputs", "generate_outputs",
                {"tenant_id", "scan_id", "provider_id"}),
       WaitNode({"scan_result", "compliance_task", "summary_task",
                 "generate_outputs"}) >>

\* scan_wf with the barrier placed before perform-scan-summary.
ScanWorkflowBarrierFirst ==
    << TaskNode("perform-prowler-scan", "scan_result",
                {"tenant_id", "scan_id", "provider_id", "checks_to_execute"}),
       TaskNode("create-compliance-requirements", "compliance_task",
                {"tenant_id", "scan_id"}),
       WaitNode({"compliance_task", "summary_task"}),
       TaskNode("perform-scan-summary", "summary_task",
                {"tenant_id", "scan_id"}),
       TaskNode("generate-outputs", "generate_outputs",
                {"tenant_id", "scan_id", "provider_id"}) >>

\* scan_wf with a barrier that names summary_task alone.
ScanWorkflowSummaryOnly ==
    << TaskNode("perform-prowler-scan", "scan_result",
                {"tenant_id", "scan_id", "provider_id", "checks_to_execute"}),
       TaskNode("create-compliance-requirements", "compliance_task",
                {"tenant_id", "scan_id"}),
       TaskNode("perform-scan-summary", "summary_task",
                {"tenant_id", "scan_id"}),
       WaitNode({"summary_task"}),
       TaskNode("generate-outputs", "generate_outputs",
                {"tenant_id", "scan_id", "provider_id"}) >>

\* LittleHorseWorkflows.scan_workflow: the calls of scan_wf in their order.
ScanWorkflow ==
    << TaskNode("perform-prowler-scan", "scan_result",
                {"tenant_id", "scan_id", "provider_id", "checks_to_execute"}),
       TaskNode("create-compliance-requirements", "compliance_task",
                {"tenant_id", "scan_id"}),
       TaskNode("perform-scan-summary", "summary_task",
                {"tenant_id", "scan_id"}),
       WaitNode({"compliance_task", "summary_task"}),
       TaskNode("generate-outputs", "generate_outputs",
                {"tenant_id", "scan_id", "provider_id"}) >>

\* scheduled_scan_wf with the spawn_thread call made twice.
ScheduledScanWorkflowSpawnTwice ==
    << TaskNode("setup-scheduled-scan", "scan_setup",
                {"tenant_id", "provider_id"}),
       SpawnNode("main_scan_thread", "scan",
                 {"tenant_id", "scan_id", "provider_id", "checks_to_execute"}),
       SpawnNode("main_scan_thread", "scan",
                 {"tenant_id", "scan_id", "provider_id", "checks_to_execute"}) >>

\* LittleHorseWorkflows.scheduled_scan_workflow
ScheduledScanWorkflow ==
    << TaskNode("setup-scheduled-scan", "scan_setup",
                {"tenant_id", "provider_id"}),
       SpawnNode("main_scan_thread", "scan",
                 {"tenant_id", "scan_id", "provider_id", "checks_to_execute"}) >>

\* LittleHorseWorkflows.provider_deletion_workflow
ProviderDeletionWorkflow ==
    << TaskNode("delete-provider", "delete_provider",
                {"tenant_id", "provider_id"}) >>

\* LittleHorseWorkflows.tenant_deletion_workflow
TenantDeletionWorkflow ==
    << TaskNode("delete-tenant", "delete_tenant", {"tenant_id"}) >>

\* register_workflows publishing the tenant deletion under the name of the
\* provider deletion.
RegisterListSameName ==
    << [name |-> "scan", spec |-> ScanWorkflow],
       [name |-> "scheduled-scan", spec |-> ScheduledScanWorkflow],
       [name |-> "provider-deletion", spec |-> ProviderDeletionWorkflow],
       [name |-> "provider-deletion", spec |-> TenantDeletionWorkflow] >>

\* register_workflows: the put_wf_spec calls in their order.
RegisterList ==
    << [name |-> "scan", spec |-> ScanWorkflow],
       [name |-> "scheduled-scan", spec |-> ScheduledScanWorkflow],
       [name |-> "provider-deletion", spec |-> ProviderDeletionWorkflow],
       [name |-> "tenant-deletion", spec |-> TenantDeletionWorkflow] >>

-----------------------------------------------------------------------------
(* The workflow engine *)

\* publishWorkflow(name, definition): the definition of that name is
\* overwritten, its version counted up.
PutWfSpec(pub, name, spec) ==
    LET version == IF name \in DOMAIN pub THEN pub[name].version + 1 ELSE 1
    IN  [n \in DOMAIN pub \cup {name} |->
            IF n = name THEN [spec |-> spec, version |-> version] ELSE pub[n]]

\* The definitions as one successful register_workflows leaves them.
PublishedAll ==
    [n \in {RegisterList[k].name : k \in 1..Len(RegisterList)} |->
        [spec |-> (CHOOSE e \in {RegisterList[k] : k \in 1..Len(RegisterList)} :
                      e.name = n).spec,
         version |-> 1]]

Handles(spec) ==
    {spec[k].handle : k \in {m \in 1..Len(spec) : spec[m].op = "execute_task"}}

\* A task whose handle a later wait_for_tasks names runs beside the steps
\* that follow it; any other task is a step the thread waits for.
Awaited(spec, k) ==
    /\ spec[k].op = "execute_task"
    /\ \E m \in (k + 1)..Len(spec) :
          /\ spec[m].op = "wait_for_tasks"
          /\ spec[k].handle \in spec[m].waits

RunIds == 1..Len(runs)

NodeAt(r) == runs[r].spec[runs[r].pc]

AtNode(r) ==
    /\ r \in RunIds
    /\ runs[r].status = "RUNNING"
    /\ runs[r].pc <= Len(runs[r].spec)

NewRun(name, variables, parent) ==
    [wf |-> name,
     spec |-> published[name].spec,
     vars |-> variables,
     pc |-> 1,
     status |-> "RUNNING",
     tasks |-> [h \in Handles(published[name].spec) |-> "none"],
     outputs |-> [h \in Handles(published[name].spec) |-> ""],
     parent |-> parent]

\* The input variables each workflow declares with wf.add_variable.
WorkflowVariables(name) ==
    CASE name = "scan" ->
            {"tenant_id", "scan_id", "provider_id", "checks_to_execute"}
      [] name = "scheduled-scan" -> {"tenant_id", "provider_id"}
      [] name = "provider-deletion" -> {"tenant_id", "provider_id"}
      [] name = "tenant-deletion" -> {"tenant_id"}
      [] OTHER -> {}

\* The variables a caller passes to a workflow: those it declares.
StartVariables(name) ==
    CASE name = "scan" ->
            [tenant_id |-> "t1", scan_id |-> "s0", provider_id |-> "p1",
             checks_to_execute |-> <<>>]
      [] name = "tenant-deletion" -> [tenant_id |-> "t1"]
      [] OTHER -> [tenant_id |-> "t1", provider_id |-> "p1"]

\* Variables that name one the workflow does not declare.
MalformedVariables(name) == [tenant_id |-> "t1", undeclared |-> "x"]

\* The names and the variables start_workflow is called with.
LaunchNames == DOMAIN PublishedAll \cup {"no-such-workflow"}
LaunchVariables(name) == {StartVariables(name), MalformedVariables(name)}

\* client.run_wf(name, **variables) as the engine answers it: the error it
\* raises, or "" when it starts the run.
RunWfError(name, variables) ==
    IF name \notin DOMAIN published THEN "unknown workflow"
    ELSE IF ~ (DOMAIN variables \subseteq WorkflowVariables(name))
         THEN "malformed variables"
         ELSE ""

\* start_workflow has been entered and has made its one call of run_wf.
LaunchCalled(name, variables) ==
    [pc |-> "called", name |-> name, variables |-> variables,
     calls |-> 1, sent |-> <<name, variables>>,
     engine_run_id |-> 0, engine_error |-> "",
     logged |-> <<>>, returned |-> "", raised |-> ""]

\* start_workflow answering a failure of run_wf with an error of its own.
OnRunWfFailureWrapped(l, e) ==
    [l EXCEPT !.pc = "raised", !.engine_error = e,
              !.logged = <<"Failed to start workflow", l.name, e>>,
              !.raised = "WorkflowStartError"]

\* except Exception as e: logger.error(f"Failed to start workflow ..."); raise
OnRunWfFailure(l, e) ==
    [l EXCEPT !.pc = "raised", !.engine_error = e,
              !.logged = <<"Failed to start workflow", l.name, e>>,
              !.raised = e]

\* logger.info(f"Started workflow ... with run ID: {run_id}"); return str(run_id)
OnRunWfSuccess(l, run_id) ==
    [l EXCEPT !.pc = "returned", !.engine_run_id = run_id,
              !.logged = <<"Started workflow", l.name, run_id>>,
              !.returned = ToString(run_id)]

\* start_workflow(workflow_name, variables): client.run_wf starts a run of a
\* published definition and its id is returned as a string, or the engine
\* raises and the error leaves start_workflow.
StartWorkflow(name, variables) ==
    /\ LET e == RunWfError(name, variables)
           l == LaunchCalled(name, variables)
       IN  IF e = ""
           THEN /\ Len(runs) < MaxThreads
                /\ runs' = Append(runs, NewRun(l.sent[1], l.sent[2], 0))
                /\ launch' = OnRunWfSuccess(l, Len(runs) + 1)
           ELSE /\ runs' = runs
                /\ launch' = OnRunWfFailure(l, e)
    /\ UNCHANGED <<published, handler, dedupVars, cmdVars>>

DispatchEnabled(r) ==
    /\ AtNode(r)
    /\ NodeAt(r).op = "execute_task"
    /\ runs[r].tasks[NodeAt(r).handle] = "none"

\* The thread reaches an execute_task node: the task is scheduled, and the
\* thread goes on at once when the task is one a later barrier waits for.
Dispatch(r) ==
    /\ DispatchEnabled(r)
    /\ runs' = [runs EXCEPT
                  ![r].tasks[NodeAt(r).handle] = "scheduled",
                  ![r].pc = IF Awaited(runs[r].spec, runs[r].pc) THEN @ + 1 ELSE @]
    /\ UNCHANGED <<published, dedupVars, cmdVars, callVars>>

AdvanceEnabled(r) ==
    /\ AtNode(r)
    /\ \/ /\ NodeAt(r).op = "execute_task"
          /\ runs[r].tasks[NodeAt(r).handle] = "done"
       \/ /\ NodeAt(r).op = "wait_for_tasks"
          /\ \A h \in NodeAt(r).waits : runs[r].tasks[h] = "done"

\* The step the thread waited for has completed, or all the tasks a
\* wait_for_tasks names have: the thread moves to the next node.
Advance(r) ==
    /\ AdvanceEnabled(r)
    /\ runs' = [runs EXCEPT ![r].pc = @ + 1]
    /\ UNCHANGED <<published, dedupVars, cmdVars, callVars>>

\* Variables of a spawned thread that leave the scan_id empty.
SpawnVariablesNoScanId(r) ==
    [tenant_id |-> runs[r].vars.tenant_id,
     scan_id |-> "",
     provider_id |-> runs[r].vars.provider_id,
     checks_to_execute |-> <<>>]

\* The variables of a spawned thread: the parent's tenant and provider, the
\* scan_id of scan_setup's output ($.scan_id), an empty list of checks.
SpawnVariables(r) ==
    [tenant_id |-> runs[r].vars.tenant_id,
     scan_id |-> runs[r].outputs["scan_setup"].scan_id,
     provider_id |-> runs[r].vars.provider_id,
     checks_to_execute |-> <<>>]

\* wf.spawn_thread(name, workflow, variables): the sub-execution starts and
\* the parent goes on without waiting for it.
SpawnThread(r) ==
    /\ AtNode(r)
    /\ NodeAt(r).op = "spawn_thread"
    /\ NodeAt(r).wf \in DOMAIN published
    /\ Len(runs) < MaxThreads
    /\ runs' = Append([runs EXCEPT ![r].pc = @ + 1],
                      NewRun(NodeAt(r).wf, SpawnVariables(r), r))
    /\ UNCHANGED <<published, dedupVars, cmdVars, callVars>>

\* The thread has passed its last node.
Complete(r) ==
    /\ r \in RunIds
    /\ runs[r].status = "RUNNING"
    /\ runs[r].pc > Len(runs[r].spec)
    /\ runs' = [runs EXCEPT ![r].status = "COMPLETED"]
    /\ UNCHANGED <<published, dedupVars, cmdVars, callVars>>

\* A task worker claims a scheduled task and calls its handler.
TaskBegin(r, h) ==
    /\ r \in RunIds
    /\ h \in DOMAIN runs[r].tasks
    /\ runs[r].tasks[h] = "scheduled"
    /\ runs' = [runs EXCEPT ![r].tasks[h] = "running"]
    /\ UNCHANGED <<published, dedupVars, cmdVars, callVars>>

\* What setup_scheduled_scan_task returns: a scan_id and the duplicate tag.
SetupOutputs == {[scan_id |-> s, duplicate |-> d] : s \in {"s1", "s2"}, d \in BOOLEAN}

\* What a handler returns: setup-scheduled-scan a scan_id with its tag, the
\* others a value that no binding reads.
TaskOutputs(h) == IF h = "scan_setup" THEN SetupOutputs ELSE {"ok"}

\* The handler returns: the result goes to the run.
TaskReturn(r, h, out) ==
    /\ r \in RunIds
    /\ h \in DOMAIN runs[r].tasks
    /\ runs[r].tasks[h] = "running"
    /\ out \in TaskOutputs(h)
    /\ runs' = [runs EXCEPT ![r].tasks[h] = "done", ![r].outputs[h] = out]
    /\ UNCHANGED <<published, dedupVars, cmdVars, callVars>>

\* The handler raises: the step has failed and the run ends in error.
TaskRaise(r, h) ==
    /\ r \in RunIds
    /\ h \in DOMAIN runs[r].tasks
    /\ runs[r].tasks[h] = "running"
    /\ runs' = [runs EXCEPT ![r].tasks[h] = "failed", ![r].status = "ERROR"]
    /\ UNCHANGED <<published, dedupVars, cmdVars, callVars>>

AllHandles == UNION {Handles(RegisterList[k].spec) : k \in 1..Len(RegisterList)}

InitEngine ==
    /\ published = PublishedAll
    /\ runs = <<>>

NextEngine ==
    \/ \E name \in DOMAIN published :
          Len(runs) < MaxRuns /\ StartWorkflow(name, StartVariables(name))
    \/ \E r \in RunIds : Dispatch(r)
    \/ \E r \in RunIds : Advance(r)
    \/ \E r \in RunIds : Len(runs) < MaxRuns /\ SpawnThread(r)
    \/ \E r \in RunIds : Complete(r)
    \/ \E r \in RunIds, h \in AllHandles : TaskBegin(r, h)
    \/ \E r \in RunIds, h \in AllHandles :
          \E out \in TaskOutputs(h) : TaskReturn(r, h, out)
    \/ \E r \in RunIds, h \in AllHandles : TaskRaise(r, h)

\* Repeated triggers of the scheduled-scan workflow: its runs up to the
\* spawn, and of the scans they spawn the first task.
NextScheduled ==
    \/ StartWorkflow("scheduled-scan", StartVariables("scheduled-scan"))
    \/ \E r \in RunIds : Dispatch(r)
    \/ \E r \in RunIds : Advance(r)
    \/ \E r \in RunIds : SpawnThread(r)
    \/ \E r \in RunIds, h \in {"scan_setup", "scan_result"} : TaskBegin(r, h)
    \/ \E r \in RunIds, out \in SetupOutputs : TaskReturn(r, "scan_setup", out)
    \/ \E r \in RunIds : TaskRaise(r, "scan_setup")

\* Runs of the scan workflow in which every handler returns.
NextScanRuns ==
    \/ Len(runs) < MaxRuns /\ StartWorkflow("scan", StartVariables("scan"))
    \/ \E r \in RunIds : Dispatch(r)
    \/ \E r \in RunIds : Advance(r)
    \/ \E r \in RunIds : Complete(r)
    \/ \E r \in RunIds, h \in AllHandles : TaskBegin(r, h)
    \/ \E r \in RunIds, h \in AllHandles : TaskReturn(r, h, "ok")

\* The engine takes the step a run's thread is ready for.
EngineStep(r) == Dispatch(r) \/ Advance(r) \/ Complete(r)

\* A worker takes up a scheduled task of the run, or the handler it called
\* returns.
WorkerStep(r) ==
    \E h \in AllHandles : TaskBegin(r, h) \/ TaskReturn(r, h, "ok")

\* The engine does not leave a ready run waiting forever, and the workers are
\* running: a scheduled task is taken up and its handler returns.
FairEngine ==
    \A r \in 1..MaxRuns : WF_vars(EngineStep(r)) /\ WF_vars(WorkerStep(r))

\* The callers of start_workflow: any name, variables well-formed or not.
NextLauncher ==
    \E name \in LaunchNames :
        \E variables \in LaunchVariables(name) :
            /\ Len(runs) < MaxRuns \/ RunWfError(name, variables) # ""
            /\ StartWorkflow(name, variables)

-----------------------------------------------------------------------------
(* The start_littlehorse_workers command *)

\* start_task_workers: the task workers in the order they are appended.
TaskWorkerList ==
    << "perform-prowler-scan", "perform-scan-summary",
       "create-compliance-requirements", "generate-outputs",
       "setup-scheduled-scan", "delete-provider", "delete-tenant",
       "check-provider-connection", "check-lighthouse-connection",
       "backfill-scan-resource-summaries" >>

\* A process of the command before handle() runs; regOk counts the calls of
\* register_workflows that have returned, over all processes.
FreshCmd(regOk) ==
    [pc |-> "init", register_only |-> FALSE, reg |-> 0, widx |-> 0,
     started |-> <<>>, returned |-> 0, failedAt |-> 0, error |-> "",
     exit |-> "", regOk |-> regOk]

\* handle(): 'Registering LittleHorse workflows...', register_workflows()
Handle(register_only) ==
    /\ cmd.pc = "init"
    /\ cmd' = [cmd EXCEPT !.pc = "registering", !.register_only = register_only]
    /\ UNCHANGED <<published, procs, runs, dedupVars, callVars>>

\* A registrar that logs the error of put_wf_spec and returns.
OnRegisterFailureSwallowed(c) ==
    [c EXCEPT !.pc = "registered"]

\* register_workflows: except Exception: logger.error(...); raise, and
\* handle's except Exception: ERROR line; raise.
OnRegisterFailure(c) ==
    [c EXCEPT !.pc = "exited", !.error = "RegistrationError", !.exit = "1"]

\* The next client.put_wf_spec of register_workflows: it publishes, or the
\* engine's error propagates.
PutNext(ok) ==
    /\ cmd.pc = "registering"
    /\ LET k == cmd.reg + 1
       IN  IF ok
           THEN /\ published' = PutWfSpec(published, RegisterList[k].name,
                                          RegisterList[k].spec)
                /\ cmd' = [cmd EXCEPT
                             !.reg = k,
                             !.pc = IF k = Len(RegisterList)
                                    THEN "registered" ELSE @,
                             !.regOk = IF k = Len(RegisterList)
                                       THEN @ + 1 ELSE @]
           ELSE /\ cmd' = OnRegisterFailure(cmd)
                /\ UNCHANGED published
    /\ UNCHANGED <<procs, runs, dedupVars, callVars>>

\* if options['register_only']: return; else start_task_workers()
AfterRegister ==
    /\ cmd.pc = "registered"
    /\ cmd' = IF cmd.register_only
              THEN [cmd EXCEPT !.pc = "exited", !.exit = "0"]
              ELSE [cmd EXCEPT !.pc = "starting", !.widx = 1]
    /\ UNCHANGED <<published, procs, runs, dedupVars, callVars>>

\* worker.start() returned: 'Started task worker', on to the next worker;
\* after the last one the list is returned and handle() sleeps.
OnStartSuccess(c) ==
    LET started == Append(c.started, TaskWorkerList[c.widx])
    IN  IF c.widx = Len(TaskWorkerList)
        THEN [c EXCEPT !.started = started, !.widx = 0, !.pc = "serving",
                       !.returned = Len(TaskWorkerList)]
        ELSE [c EXCEPT !.started = started, !.widx = @ + 1]

\* worker.start() raised and the loop logs it and goes on to the next worker.
OnStartFailureContinue(c) ==
    IF c.widx = Len(TaskWorkerList)
    THEN [c EXCEPT !.widx = 0, !.pc = "serving",
                   !.returned = Len(TaskWorkerList)]
    ELSE [c EXCEPT !.widx = @ + 1]

\* worker.start() raised and the workers started so far are stopped before
\* the error goes on.
OnStartFailureStopAll(c) ==
    [c EXCEPT !.pc = "exited", !.failedAt = c.widx, !.widx = 0,
              !.started = <<>>,
              !.error = "WorkerStartError", !.exit = "1"]

\* worker.start() raised: logger.error(...); raise, and handle's
\* except Exception: ERROR line; raise.
OnStartFailure(c) ==
    [c EXCEPT !.pc = "exited", !.failedAt = c.widx, !.widx = 0,
              !.error = "WorkerStartError", !.exit = "1"]

\* for worker in task_workers: worker.start()
StartNextWorker(ok) ==
    /\ cmd.pc = "starting"
    /\ cmd' = IF ok THEN OnStartSuccess(cmd) ELSE OnStartFailure(cmd)
    /\ UNCHANGED <<published, procs, runs, dedupVars, callVars>>

\* except KeyboardInterrupt: 'Shutting down LittleHorse workers...'
Interrupt ==
    /\ cmd.pc = "serving"
    /\ cmd' = [cmd EXCEPT !.pc = "exited", !.exit = "0"]
    /\ UNCHANGED <<published, procs, runs, dedupVars, callVars>>

\* The command is run again; the engine keeps what was published.
Restart ==
    /\ cmd.pc = "exited"
    /\ procs < MaxProcs
    /\ procs' = procs + 1
    /\ cmd' = FreshCmd(cmd.regOk)
    /\ UNCHANGED <<published, runs, dedupVars, callVars>>

InitCmd ==
    /\ cmd = FreshCmd(0)
    /\ procs = 1

NextCmd ==
    \/ \E register_only \in BOOLEAN : Handle(register_only)
    \/ \E ok \in BOOLEAN : PutNext(ok)
    \/ AfterRegister
    \/ \E ok \in BOOLEAN : StartNextWorker(ok)
    \/ Interrupt
    \/ Restart

-----------------------------------------------------------------------------
(* Calls of the task handlers and of start_workflow *)

\* The ctx.get_variable calls of each handler, in their order.
HandlerVariables(task) ==
    CASE task = "perform-prowler-scan" ->
            <<"tenant_id", "scan_id", "provider_id", "checks_to_execute">>
      [] task = "perform-scan-summary" -> <<"tenant_id", "scan_id">>
      [] task = "create-compliance-requirements" -> <<"tenant_id", "scan_id">>
      [] task = "generate-outputs" -> <<"tenant_id", "scan_id", "provider_id">>
      [] task = "setup-scheduled-scan" -> <<"tenant_id", "provider_id">>
      [] task = "delete-provider" -> <<"tenant_id", "provider_id">>
      [] task = "delete-tenant" -> <<"tenant_id">>
      [] task = "check-provider-connection" -> <<"provider_id">>
      [] task = "check-lighthouse-connection" -> <<"lighthouse_config_id">>
      [] task = "backfill-scan-resource-summaries" -> <<"tenant_id", "scan_id">>

\* The exceptions a lookup or a domain operation raises, and the values a
\* domain operation returns.
Exceptions == {"e1", "e2"}
DomainResults == {"r1", "r2"}

\* No handler is running. failure and cause tell what went wrong in the
\* call: "variable" or "domain", and the exception; logged, raised and
\* returned are what the handler did about it.
IdleHandler ==
    [pc |-> "idle", task |-> "", read |-> 0, failure |-> "", cause |-> "",
     logged |-> <<>>, raised |-> "", returned |-> ""]

\* A worker calls the handler of a task.
HandlerCall(task) ==
    /\ handler.pc \in {"idle", "returned", "raised"}
    /\ handler' = [IdleHandler EXCEPT !.pc = "reading", !.task = task]
    /\ UNCHANGED <<launch, dedupVars, engineVars, cmdVars>>

\* A handler that answers an exception with a value of its own.
OnHandlerExceptionDefault(h, e) ==
    [h EXCEPT !.pc = "returned", !.returned = "default"]

\* except Exception as e: logger.error(f"Error in <handler>: {e}"); raise
OnHandlerException(h, e) ==
    [h EXCEPT !.pc = "raised", !.logged = <<h.task, e>>, !.raised = e]

\* The next ctx.get_variable of the handler: it gives the value, or raises.
GetVariable(ok, e) ==
    /\ handler.pc = "reading"
    /\ handler' =
          IF ok
          THEN [handler EXCEPT
                  !.read = @ + 1,
                  !.pc = IF handler.read + 1 = Len(HandlerVariables(handler.task))
                         THEN "operating" ELSE @]
          ELSE OnHandlerException(
                  [handler EXCEPT !.failure = "variable", !.cause = e], e)
    /\ UNCHANGED <<launch, dedupVars, engineVars, cmdVars>>

\* The domain operation the handler delegates to: its result is returned as
\* it is, or it raises.
DomainOperation(ok, out, e) ==
    /\ handler.pc = "operating"
    /\ handler' =
          IF ok
          THEN [handler EXCEPT !.pc = "returned", !.returned = out]
          ELSE OnHandlerException(
                  [handler EXCEPT !.failure = "domain", !.cause = e], e)
    /\ UNCHANGED <<launch, dedupVars, engineVars, cmdVars>>

\* start_workflow has not been called.
NoLaunch ==
    [pc |-> "none", name |-> "", variables |-> <<>>, calls |-> 0,
     sent |-> <<>>, engine_run_id |-> 0, engine_error |-> "",
     logged |-> <<>>, returned |-> "", raised |-> ""]

InitCalls ==
    /\ handler = IdleHandler
    /\ launch = NoLaunch

NextHandlers ==
    \/ \E k \in 1..Len(TaskWorkerList) : HandlerCall(TaskWorkerList[k])
    \/ \E e \in Exceptions : GetVariable(TRUE, e) \/ GetVariable(FALSE, e)
    \/ \E out \in DomainResults, e \in Exceptions :
          DomainOperation(TRUE, out, e) \/ DomainOperation(FALSE, out, e)

-----------------------------------------------------------------------------
(* The specifications *)

\* The scheduled-scan deduplicator and its store.
Init ==
    /\ InitDedup
    /\ InitEngine
    /\ InitCmd
    /\ InitCalls

Next == NextDedup

Spec == Init /\ [][Next]_vars

\* The deduplicator serving two tenants.
InitTenants ==
    /\ scans \in TenantStores
    /\ periodicTasks = InitPeriodicTasks
    /\ today = 1
    /\ inv = [i \in InvIds |-> IdleInv]
    /\ InitEngine
    /\ InitCmd
    /\ InitCalls

SpecTenants == InitTenants /\ [][NextTenants]_vars

\* The deduplicator when the store may raise transaction conflicts.
SpecConflict == Init /\ [][NextConflict]_vars

\* The same within one day.
SpecOneDay == Init /\ [][NextOneDay]_vars

\* The engine running the published workflows.
InitWorkflow ==
    /\ scans = <<>>
    /\ periodicTasks = InitPeriodicTasks
    /\ today = 1
    /\ inv = [i \in InvIds |-> IdleInv]
    /\ InitEngine
    /\ InitCmd
    /\ InitCalls

SpecWorkflow == InitWorkflow /\ [][NextEngine]_vars

\* The command against an engine that holds no definition yet.
InitCommand ==
    /\ scans = <<>>
    /\ periodicTasks = InitPeriodicTasks
    /\ today = 1
    /\ inv = [i \in InvIds |-> IdleInv]
    /\ published = << >>
    /\ runs = <<>>
    /\ InitCmd
    /\ InitCalls

SpecCommand == InitCommand /\ [][NextCmd]_vars

\* Scan runs whose handlers all return, under fair scheduling of the engine
\* and the workers.
SpecScanFair == InitWorkflow /\ [][NextScanRuns]_vars /\ FairEngine

\* The scheduled-scan workflow triggered several times.
SpecScheduled == InitWorkflow /\ [][NextScheduled]_vars

\* start_workflow called against the engine holding the four definitions.
SpecLauncher == InitWorkflow /\ [][NextLauncher]_vars

\* The task handlers called by the workers.
SpecHandlers == InitWorkflow /\ [][NextHandlers]_vars

-----------------------------------------------------------------------------
(* Properties of the scheduled-scan deduplicator *)

Matching == {"SCHEDULED", "AVAILABLE", "EXECUTING"}

\* Two invocations overlap in time: neither had returned when the other began.
Concurrent(i, j) ==
    /\ inv[i].pc # "idle"
    /\ inv[j].pc # "idle"
    /\ i \notin inv[j].preDone
    /\ j \notin inv[i].preDone

\* Same tenant, provider and calendar date.
SameKeyDate(i, j) ==
    /\ inv[i].tenant_id = inv[j].tenant_id
    /\ inv[i].provider_id = inv[j].provider_id
    /\ inv[i].now_date # 0
    /\ inv[i].now_date = inv[j].now_date

\* C1: concurrent invocations with the same tenant, provider and date that
\* both began on a store with no matching SCHEDULED, AVAILABLE or EXECUTING
\* scan create at most one scan between them: never two scans, both still
\* SCHEDULED, one created by each.
C1_AtMostOneCreated ==
    \A i, j \in InvIds :
        ( /\ i # j
          /\ Concurrent(i, j)
          /\ SameKeyDate(i, j)
          /\ inv[i].preStates \cap Matching = {}
          /\ inv[j].preStates \cap Matching = {} )
        => ~ ( /\ inv[i].created # 0
               /\ inv[j].created # 0
               /\ scans[inv[i].created].state = "SCHEDULED"
               /\ scans[inv[j].created].state = "SCHEDULED" )

\* C2: of two concurrent invocations with the same tenant, provider and date
\* that both returned, the one that is not the first is tagged duplicate=true
\* (so at least one of the two is), and both return the same scan_id.
C2_AllButFirstDuplicate ==
    \A i, j \in InvIds :
        ( /\ i # j
          /\ Concurrent(i, j)
          /\ SameKeyDate(i, j)
          /\ inv[i].pc = "done"
          /\ inv[j].pc = "done" )
        => /\ inv[i].result.scan_id = inv[j].result.scan_id
           /\ inv[i].result.duplicate \/ inv[j].result.duplicate

\* C3: in every state of the store there is at most one scan per (tenant,
\* provider, scheduler task, scheduled date) in state SCHEDULED or EXECUTING.
C3_AtMostOneActivePerDay ==
    \A a, b \in ScanIds :
        ( /\ a # b
          /\ scans[a].tenant_id = scans[b].tenant_id
          /\ scans[a].provider_id = scans[b].provider_id
          /\ scans[a].scheduler_task_id = scans[b].scheduler_task_id
          /\ scans[a].scheduled_at = scans[b].scheduled_at )
        => ~ ( /\ scans[a].state \in {"SCHEDULED", "EXECUTING"}
               /\ scans[b].state \in {"SCHEDULED", "EXECUTING"} )

\* The case of C8: j is the second of exactly two invocations of the day for
\* its (tenant, provider); the first, i, has returned; it began on a store
\* with no scan of the (tenant, provider) in one of `states`; the scan it
\* returned is EXECUTING now, and j is about to look for a running scan.
TwiceSameDay(i, j, states) ==
    /\ i # j
    /\ inv[i].pc = "done"
    /\ inv[j].pc = "check"
    /\ i \in inv[j].preDone
    /\ inv[i].tenant_id = inv[j].tenant_id
    /\ inv[i].provider_id = inv[j].provider_id
    /\ inv[i].now_date = today
    /\ inv[i].preStates \cap states = {}
    /\ \A k \in InvIds \ {i, j} :
          ( /\ inv[k].pc # "idle"
            /\ inv[k].tenant_id = inv[i].tenant_id
            /\ inv[k].provider_id = inv[i].provider_id ) => k \in inv[i].preDone
    /\ scans[inv[i].result.scan_id].state = "EXECUTING"

\* The first call returned duplicate=false with the id of a scan it created;
\* the second call, when it takes its step, returns duplicate=true with the
\* same scan_id and the store is as it was.
FirstFreshSecondDuplicate(i, j) ==
    /\ ~ inv[i].result.duplicate
    /\ inv[i].created # 0
    /\ inv[i].created = inv[i].result.scan_id
    /\ inv'[j] # inv[j] =>
          /\ inv'[j].pc = "commit"
          /\ inv'[j].result.duplicate
          /\ inv'[j].result.scan_id = inv[i].result.scan_id
          /\ inv'[j].created = 0
          /\ scans' = scans

\* C8 as stated: the store holds no EXECUTING scan of the (tenant, provider)
\* when the first call begins.
C8_TwiceSameDay_Original ==
    [][\A i, j \in InvIds :
          TwiceSameDay(i, j, {"EXECUTING"}) => FirstFreshSecondDuplicate(i, j)]_vars

\* C8, amended: the store holds no SCHEDULED, AVAILABLE or EXECUTING scan of
\* the (tenant, provider) when the first call begins. Then the first call
\* returns duplicate=false with the id of a scan it created, and once that
\* scan is EXECUTING the second call of the day returns duplicate=true with
\* the same scan_id and creates nothing.
C8_TwiceSameDay ==
    [][\A i, j \in InvIds :
          TwiceSameDay(i, j, Matching) => FirstFreshSecondDuplicate(i, j)]_vars

\* The second call has returned the scan the first call created.
C8_Witness ==
    \E i, j \in InvIds :
        /\ i # j
        /\ i \in inv[j].preDone
        /\ inv[i].preStates \cap Matching = {}
        /\ inv[i].created # 0
        /\ inv[j].pc = "done"
        /\ inv[j].now_date = inv[i].now_date
        /\ inv[j].result.duplicate
        /\ inv[j].result.scan_id = inv[i].created

\* The EXECUTING scheduled scans of today for an invocation's tenant and
\* provider, under the scheduler task named after the provider.
ExecutingToday(i) ==
    {id \in ScanIds :
        /\ scans[id].tenant_id = inv[i].tenant_id
        /\ scans[id].provider_id = inv[i].provider_id
        /\ scans[id].trigger = "SCHEDULED"
        /\ scans[id].state = "EXECUTING"
        /\ scans[id].scheduled_at = today
        /\ \E pt \in periodicTasks :
              /\ pt.name = PeriodicTaskName(inv[i].provider_id)
              /\ pt.id = scans[id].scheduler_task_id}

\* C9: when an EXECUTING scheduled scan of today exists for the (tenant,
\* provider, scheduler task), the invocation creates nothing, leaves the store
\* unchanged and returns the id of such a scan tagged duplicate=true, with a
\* snapshot of that scan.
C9_DuplicateLeavesStore ==
    [][\A i \in InvIds :
          ( /\ inv[i].pc = "check"
            /\ inv'[i] # inv[i]
            /\ ExecutingToday(i) # {} )
          => /\ scans' = scans
             /\ inv'[i].pc = "commit"
             /\ inv'[i].created = 0
             /\ inv'[i].result.duplicate
             /\ inv'[i].result.scan_id \in ExecutingToday(i)
             /\ inv'[i].result.result = <<scans[inv'[i].result.scan_id]>>]_vars

\* An invocation has returned a running scan as a duplicate.
C9_Witness ==
    \E i \in InvIds :
        /\ inv[i].pc = "done"
        /\ inv[i].result.duplicate
        /\ inv[i].result.scan_id \in ScanIds
        /\ inv[i].result.result # <<>>

NoPeriodicTask(provider_id) ==
    \A pt \in periodicTasks : pt.name # PeriodicTaskName(provider_id)

\* C10: when no scheduling task named after the provider exists, the
\* invocation fails with the lookup's error, returns no scan_id and creates
\* nothing: the store is unchanged by it and never holds a scan of such a
\* provider.
C10_MissingPeriodicTask ==
    /\ [](\A i \in InvIds :
            (inv[i].pc # "idle" /\ NoPeriodicTask(inv[i].provider_id))
            => /\ inv[i].pc = "failed"
               /\ inv[i].error = "DoesNotExist"
               /\ inv[i].result = NoResult
               /\ inv[i].created = 0)
    /\ [](\A id \in ScanIds : ~ NoPeriodicTask(scans[id].provider_id))
    /\ [][\A i \in InvIds :
            ( /\ inv'[i] # inv[i]
              /\ NoPeriodicTask(inv'[i].provider_id) )
            => scans' = scans /\ periodicTasks' = periodicTasks]_vars

\* An invocation for a provider without a scheduling task has failed.
C10_Witness ==
    \E i \in InvIds :
        /\ inv[i].pc = "failed"
        /\ inv[i].error = "DoesNotExist"
        /\ NoPeriodicTask(inv[i].provider_id)

\* C17: when setup_scheduled_scan_task is delivered again for a step whose
\* first invocation created a scan and committed, the repeated invocation,
\* whatever state the scan has moved to since, returns the scan_id the first
\* one returned and creates no scan.
C17_RedeliverySameScan ==
    \A i, j \in InvIds :
        ( /\ i # j
          /\ i \in inv[j].preDone
          /\ inv[i].pc = "done"
          /\ inv[i].created # 0
          /\ inv[j].tenant_id = inv[i].tenant_id
          /\ inv[j].provider_id = inv[i].provider_id
          /\ inv[j].pc = "done" )
        => /\ inv[j].result.scan_id = inv[i].result.scan_id
           /\ inv[j].created = 0

\* The scheduled scans of an invocation's tenant and provider, under the
\* scheduler task named after the provider, that are SCHEDULED or AVAILABLE,
\* whatever their scheduled date.
Reusable(i) ==
    {id \in ScanIds :
        /\ scans[id].tenant_id = inv[i].tenant_id
        /\ scans[id].provider_id = inv[i].provider_id
        /\ scans[id].trigger = "SCHEDULED"
        /\ scans[id].state \in {"SCHEDULED", "AVAILABLE"}
        /\ \E pt \in periodicTasks :
              /\ pt.name = PeriodicTaskName(inv[i].provider_id)
              /\ pt.id = scans[id].scheduler_task_id}

\* C20: the get-or-create step matches by the set of states and not by the
\* date. An invocation that finds no EXECUTING scan of today goes on to
\* get-or-create, and when exactly one scan of its (tenant, provider,
\* scheduler task, trigger SCHEDULED) is SCHEDULED or AVAILABLE, this scan
\* is reused whatever its scheduled date: the store stays as it is, nothing
\* is created, and its id is returned tagged duplicate=false.
C20_MatchByStateNotDate ==
    [][\A i \in InvIds :
          /\ ( /\ inv[i].pc = "check"
               /\ inv'[i] # inv[i]
               /\ ExecutingToday(i) = {} )
             => inv'[i].pc = "get_or_create"
          /\ ( /\ inv[i].pc = "get_or_create"
               /\ inv'[i] # inv[i]
               /\ Cardinality(Reusable(i)) = 1 )
             => /\ scans' = scans
                /\ inv'[i].pc = "commit"
                /\ inv'[i].created = 0
                /\ ~ inv'[i].result.duplicate
                /\ inv'[i].result.scan_id \in Reusable(i)]_vars

\* An invocation has returned, tagged duplicate=false, a scan it did not
\* create and whose scheduled date is before the day of the invocation.
C20_Witness ==
    \E i \in InvIds :
        /\ inv[i].pc = "done"
        /\ inv[i].created = 0
        /\ ~ inv[i].result.duplicate
        /\ inv[i].result.scan_id \in ScanIds
        /\ scans[inv[i].result.scan_id].scheduled_at < inv[i].now_date

Tenants == {"t1", "t2"}

\* The rows a tenant holds.
TenantRows(tenant_id) ==
    {scans[id] : id \in {k \in ScanIds : scans[k].tenant_id = tenant_id}}

\* What the two queries of an invocation for (tenant, provider) match.
MatchSets(tenant_id, provider_id) ==
    << ExistingScanFilter(tenant_id, provider_id,
                          LookupPeriodicTask(provider_id), today),
       GetOrCreateLookup(tenant_id, provider_id,
                         LookupPeriodicTask(provider_id)) >>

\* C15: an invocation for a tenant returns only ids of that tenant's scans,
\* with a snapshot of that tenant's scan, and creates only scans of that
\* tenant; its steps leave the rows of every other tenant as they are; and
\* what its queries match is the same whatever the other tenants hold: a
\* step that changes only other tenants' rows (a scan of theirs created,
\* started or ended) changes nothing of what the tenant's queries match.
C15_TenantIsolation ==
    /\ [](\A i \in InvIds :
            inv[i].pc = "done" =>
               /\ inv[i].result.scan_id \in ScanIds
               /\ scans[inv[i].result.scan_id].tenant_id = inv[i].tenant_id
               /\ \A k \in 1..Len(inv[i].result.result) :
                     inv[i].result.result[k].tenant_id = inv[i].tenant_id)
    /\ [](\A i \in InvIds :
            inv[i].created # 0 =>
               scans[inv[i].created].tenant_id = inv[i].tenant_id)
    /\ [][\A i \in InvIds :
            inv'[i] # inv[i] =>
               /\ \A id \in ScanIds : scans'[id] = scans[id]
               /\ \A id \in (1..Len(scans')) \ ScanIds :
                     scans'[id].tenant_id = inv'[i].tenant_id]_vars
    /\ [][\A t \in Tenants :
            (TenantRows(t)' = TenantRows(t) /\ today' = today) =>
               \A a \in TenantInputs :
                  a[1] = t => MatchSets(t, a[2])' = MatchSets(t, a[2])]_vars

\* An invocation of tenant t1 has created its own scan while tenant t2 holds
\* a scan of the same provider that is SCHEDULED.
C15_Witness ==
    \E i \in InvIds, id \in ScanIds :
        /\ inv[i].tenant_id = "t1"
        /\ inv[i].pc = "done"
        /\ inv[i].created # 0
        /\ id < inv[i].created
        /\ scans[id].tenant_id = "t2"
        /\ scans[id].provider_id = inv[i].provider_id
        /\ scans[id].state = "SCHEDULED"

\* C11: an invocation fails of a transaction conflict in the get-or-create
\* step only after LITTLEHORSE_DEADLOCK_ATTEMPTS attempts of the step have
\* failed; a conflict on an earlier attempt is followed by another attempt.
C11_ConflictRetried ==
    \A i \in InvIds :
        (inv[i].pc = "failed" /\ inv[i].error = "TransactionConflict")
        => inv[i].attempts = LITTLEHORSE_DEADLOCK_ATTEMPTS

-----------------------------------------------------------------------------
(* Properties of the scan workflow *)

\* The status of the task of that name in a run.
TaskStatus(r, task) ==
    LET spec == runs[r].spec
        k == CHOOSE k \in 1..Len(spec) :
                spec[k].op = "execute_task" /\ spec[k].task = task
    IN  runs[r].tasks[spec[k].handle]

ScanRuns == {r \in RunIds : runs[r].wf = "scan"}

\* C4: in every run of the scan workflow, create-compliance-requirements and
\* perform-scan-summary are invoked only when perform-prowler-scan has
\* completed, and generate-outputs only when both of them have completed.
C4_ScanOrdering ==
    \A r \in ScanRuns :
        /\ ( \/ TaskStatus(r, "create-compliance-requirements") # "none"
             \/ TaskStatus(r, "perform-scan-summary") # "none" )
           => TaskStatus(r, "perform-prowler-scan") = "done"
        /\ TaskStatus(r, "generate-outputs") # "none"
           => /\ TaskStatus(r, "create-compliance-requirements") = "done"
              /\ TaskStatus(r, "perform-scan-summary") = "done"

\* A scan run has gone through all four tasks.
C4_Witness ==
    \E r \in ScanRuns :
        /\ runs[r].status = "COMPLETED"
        /\ TaskStatus(r, "generate-outputs") = "done"

\* C5: create-compliance-requirements and perform-scan-summary run beside
\* each other. Neither is invoked before perform-prowler-scan has completed,
\* and once it has, as long as one of the two has not been invoked the thread
\* of the run can take its next step: it is never held until the other one
\* completes.
C5_ParallelSteps ==
    \A r \in ScanRuns :
        LET compliance == TaskStatus(r, "create-compliance-requirements")
            summary == TaskStatus(r, "perform-scan-summary")
        IN  /\ (compliance # "none" \/ summary # "none")
               => TaskStatus(r, "perform-prowler-scan") = "done"
            /\ ( /\ runs[r].status = "RUNNING"
                 /\ TaskStatus(r, "perform-prowler-scan") = "done"
                 /\ (compliance = "none" \/ summary = "none") )
               => (DispatchEnabled(r) \/ AdvanceEnabled(r))

\* Both orders of completion: in one run compliance has completed while the
\* summary still runs, in another the summary has completed while compliance
\* still runs.
C5_Witness ==
    \E r1, r2 \in ScanRuns :
        /\ TaskStatus(r1, "create-compliance-requirements") = "done"
        /\ TaskStatus(r1, "perform-scan-summary") = "running"
        /\ TaskStatus(r2, "perform-scan-summary") = "done"
        /\ TaskStatus(r2, "create-compliance-requirements") = "running"

\* C14: start_workflow calls run_wf once with the name and the variables it
\* was given. When the engine starts the run, the run has that name and
\* those variables and start_workflow returns the run's id as a string; when
\* the engine rejects the start (unknown name, malformed variables), the
\* engine's error leaves start_workflow as it is, nothing is returned and no
\* run is started.
C14_StartWorkflow ==
    /\ [](launch.pc # "none" =>
            /\ launch.calls = 1
            /\ launch.sent = <<launch.name, launch.variables>>
            /\ launch.pc \in {"returned", "raised"})
    /\ [](launch.pc = "returned" =>
            /\ launch.engine_run_id \in RunIds
            /\ runs[launch.engine_run_id].wf = launch.name
            /\ runs[launch.engine_run_id].vars = launch.variables
            /\ launch.returned = ToString(launch.engine_run_id)
            /\ launch.raised = "")
    /\ [](launch.pc = "raised" =>
            /\ launch.engine_error \in {"unknown workflow", "malformed variables"}
            /\ launch.raised = launch.engine_error
            /\ launch.returned = "")
    /\ [][(launch' # launch /\ launch'.pc = "raised") => runs' = runs]_vars
    /\ [][(launch' # launch /\ launch'.pc = "returned") =>
            /\ Len(runs') = Len(runs) + 1
            /\ launch'.engine_run_id = Len(runs')]_vars

\* A start with malformed variables has been rejected after a run had been
\* started.
C14_Witness ==
    /\ launch.pc = "raised"
    /\ launch.name = "scan"
    /\ launch.raised = "malformed variables"
    /\ Len(runs) >= 1

\* C18: in a run of the scan workflow a step failure ends the run at that
\* step. When perform-prowler-scan has failed, none of
\* create-compliance-requirements, perform-scan-summary and generate-outputs
\* is ever invoked; when create-compliance-requirements or
\* perform-scan-summary has failed, generate-outputs is never invoked.
C18_FailureStopsRun ==
    \A r \in ScanRuns :
        /\ TaskStatus(r, "perform-prowler-scan") = "failed"
           => /\ runs[r].status = "ERROR"
              /\ TaskStatus(r, "create-compliance-requirements") = "none"
              /\ TaskStatus(r, "perform-scan-summary") = "none"
              /\ TaskStatus(r, "generate-outputs") = "none"
        /\ ( \/ TaskStatus(r, "create-compliance-requirements") = "failed"
             \/ TaskStatus(r, "perform-scan-summary") = "failed" )
           => /\ runs[r].status = "ERROR"
              /\ TaskStatus(r, "generate-outputs") = "none"

\* perform-scan-summary has failed after create-compliance-requirements
\* completed, in one run; perform-prowler-scan has failed in another.
C18_Witness ==
    \E r1, r2 \in ScanRuns :
        /\ TaskStatus(r1, "perform-scan-summary") = "failed"
        /\ TaskStatus(r1, "create-compliance-requirements") = "done"
        /\ TaskStatus(r2, "perform-prowler-scan") = "failed"

ScanTasks ==
    {"perform-prowler-scan", "create-compliance-requirements",
     "perform-scan-summary", "generate-outputs"}

\* The thread of the run is held at the barrier.
AtBarrier(r) == AtNode(r) /\ NodeAt(r).op = "wait_for_tasks"

\* The run has completed.
RunCompleted(r) == r \in RunIds /\ runs[r].status = "COMPLETED"

\* C19: under fair scheduling of the engine and the workers, every run of
\* the scan workflow in which every handler returns eventually completes,
\* so that its thread is not held at the barrier forever; a completed run
\* has had all four tasks invoked and completed; and generate-outputs is the
\* last to complete: when it completes the other three have.
C19_ScanRunCompletes ==
    /\ \A r \in 1..MaxRuns : (r \in ScanRuns) ~> RunCompleted(r)
    /\ [](\A r \in ScanRuns :
            /\ runs[r].status = "COMPLETED"
               => /\ \A t \in ScanTasks : TaskStatus(r, t) = "done"
                  /\ ~ AtBarrier(r)
            /\ TaskStatus(r, "generate-outputs") = "done"
               => \A t \in ScanTasks : TaskStatus(r, t) = "done")

\* A scan run has completed with none of its tasks failed, after its thread
\* was let through the barrier.
C19_Witness ==
    \E r \in ScanRuns :
        /\ runs[r].status = "COMPLETED"
        /\ runs[r].pc > Len(runs[r].spec)
        /\ \A t \in ScanTasks : TaskStatus(r, t) = "done"

ScheduledScanRuns == {r \in RunIds : runs[r].wf = "scheduled-scan"}

\* The runs a run has spawned.
Spawned(p) == {c \in RunIds : runs[c].parent = p}

\* C16: in every run of the scheduled-scan workflow the sub-execution is
\* spawned only when setup-scheduled-scan has completed; it is a run of the
\* scan workflow and its variables are the parent's tenant_id and
\* provider_id, the scan_id that setup-scheduled-scan returned and an empty
\* list of checks; and the parent does not wait for it: once it has spawned,
\* the parent's thread is past its last node whatever the sub-execution does.
C16_ScheduledScanSpawn ==
    /\ \A c \in RunIds : runs[c].parent # 0 => runs[c].parent \in ScheduledScanRuns
    /\ \A p \in ScheduledScanRuns :
          /\ (runs[p].pc > 1 \/ Spawned(p) # {})
             => runs[p].tasks["scan_setup"] = "done"
          /\ \A c \in Spawned(p) :
                /\ runs[c].wf = "scan"
                /\ runs[c].vars.tenant_id = runs[p].vars.tenant_id
                /\ runs[c].vars.provider_id = runs[p].vars.provider_id
                /\ runs[c].vars.scan_id = runs[p].outputs["scan_setup"].scan_id
                /\ runs[c].vars.scan_id \in {"s1", "s2"}
                /\ runs[c].vars.checks_to_execute = <<>>
                /\ DOMAIN runs[c].vars =
                      {"tenant_id", "scan_id", "provider_id", "checks_to_execute"}
                /\ runs[p].pc > Len(runs[p].spec)
                /\ runs[p].status \in {"RUNNING", "COMPLETED"}

\* The parent has completed while the scan it spawned, for the scan_id s2, is
\* still running its first task.
C16_Witness ==
    \E p \in ScheduledScanRuns : \E c \in Spawned(p) :
        /\ runs[p].status = "COMPLETED"
        /\ runs[c].status = "RUNNING"
        /\ runs[c].vars.scan_id = "s2"
        /\ runs[c].tasks["scan_result"] = "running"

\* The scheduled-scan runs that have spawned for the scan_id.
SpawnedFor(scan_id) ==
    {p \in ScheduledScanRuns :
        /\ runs[p].pc > 2
        /\ runs[p].outputs["scan_setup"].scan_id = scan_id}

\* The scan runs that carry the scan_id.
ScansOf(scan_id) == {c \in ScanRuns : runs[c].vars.scan_id = scan_id}

\* C21: a scheduled-scan run whose setup-scheduled-scan step returned spawns
\* one scan sub-execution, for the scan_id returned, whether the result is
\* tagged duplicate=true or duplicate=false: never two, exactly one once
\* its thread is past the spawn, and no branch on the tag holds the thread
\* back; a run whose setup step failed spawns none. So the scan runs that
\* carry a scan_id are as many as the triggers that have spawned for it, and
\* each of them invokes perform-prowler-scan for that scan_id.
C21_OneSpawnPerTrigger ==
    /\ \A p \in ScheduledScanRuns :
          /\ Cardinality(Spawned(p)) <= 1
          /\ runs[p].pc > 2 => Cardinality(Spawned(p)) = 1
          /\ runs[p].tasks["scan_setup"] # "done" => Spawned(p) = {}
          /\ (runs[p].tasks["scan_setup"] = "done" /\ runs[p].pc = 2)
             => /\ runs[p].status = "RUNNING"
                /\ NodeAt(p).op = "spawn_thread"
                /\ NodeAt(p).wf = "scan"
          /\ \A c \in Spawned(p) :
                /\ runs[c].wf = "scan"
                /\ runs[c].vars.scan_id = runs[p].outputs["scan_setup"].scan_id
    /\ \A scan_id \in {"s1", "s2"} :
          Cardinality(ScansOf(scan_id)) = Cardinality(SpawnedFor(scan_id))
    /\ \A c \in ScanRuns :
          /\ runs[c].parent \in ScheduledScanRuns
          /\ "scan_id" \in NodeAt(c).args
          /\ NodeAt(c).task = "perform-prowler-scan"

\* Two triggers have returned the scan_id s1, one tagged duplicate=true and
\* one duplicate=false, and perform-prowler-scan has been invoked in the two
\* scans they spawned for s1.
C21_Witness ==
    \E p1, p2 \in ScheduledScanRuns :
        /\ runs[p1].tasks["scan_setup"] = "done"
        /\ runs[p2].tasks["scan_setup"] = "done"
        /\ runs[p1].outputs["scan_setup"] = [scan_id |-> "s1", duplicate |-> TRUE]
        /\ runs[p2].outputs["scan_setup"] = [scan_id |-> "s1", duplicate |-> FALSE]
        /\ Cardinality(ScansOf("s1")) = 2
        /\ \A c \in ScansOf("s1") : runs[c].tasks["scan_result"] = "running"

-----------------------------------------------------------------------------
(* The result of setup_scheduled_scan_task against the store *)

\* C22 as stated: whenever setup_scheduled_scan_task returns duplicate=true,
\* the scan_id names a record that existed before the call and is EXECUTING
\* with trigger SCHEDULED and scheduled date today; whenever it returns
\* duplicate=false, the scan_id names a record that is SCHEDULED or AVAILABLE
\* when the transaction commits. The record is read without a lock and
\* another transaction may move it on before the commit, and the record a
\* duplicate names may have been inserted after the call began.
C22_ResultMatchesRecord_Original ==
    [][\A i \in InvIds :
          (inv[i].pc # "done" /\ inv'[i].pc = "done")
          => LET id == inv'[i].result.scan_id
             IN  /\ id \in 1..Len(scans')
                 /\ IF inv'[i].result.duplicate
                    THEN /\ id <= inv'[i].preLen
                         /\ scans'[id].state = "EXECUTING"
                         /\ scans'[id].trigger = "SCHEDULED"
                         /\ scans'[id].scheduled_at = today'
                    ELSE scans'[id].state \in {"SCHEDULED", "AVAILABLE"}]_vars

\* C22: the result of setup_scheduled_scan_task is fixed by the statement that
\* reads or inserts the record, and describes the record as that statement
\* saw it. A duplicate=true result names a record the call did not insert and
\* that the existing-scan query found EXECUTING with trigger SCHEDULED and
\* scheduled date today; a duplicate=false result names either a record the
\* lookup of get_or_create found SCHEDULED or AVAILABLE (nothing is created)
\* or the record the call inserts in state SCHEDULED. The commit and the
\* return hand the result on unchanged, and every return carries one.
C22_ResultMatchesRecord ==
    [][\A i \in InvIds :
          /\ (inv'[i].result # inv[i].result)
             => LET id == inv'[i].result.scan_id
                IN  /\ inv[i].result = NoResult
                    /\ IF inv'[i].result.duplicate
                       THEN /\ inv[i].pc = "check"
                            /\ id \in ExecutingToday(i)
                            /\ inv'[i].created = 0
                            /\ scans' = scans
                       ELSE \/ /\ inv[i].pc = "get_or_create"
                               /\ id \in Reusable(i)
                               /\ inv'[i].created = 0
                               /\ scans' = scans
                            \/ /\ inv[i].pc = "create"
                               /\ id = Len(scans) + 1
                               /\ Len(scans') = id
                               /\ scans'[id].state = "SCHEDULED"
                               /\ inv'[i].created = id
          /\ (inv[i].pc # "done" /\ inv'[i].pc = "done")
             => inv'[i].result.scan_id \in 1..Len(scans')]_vars

\* C22 witness: a call has returned duplicate=true for a record that was
\* inserted after the call began and that has left EXECUTING since the
\* query read it, and another call has returned duplicate=false for the
\* record it created.
C22_Witness ==
    \E i, j \in InvIds :
        /\ inv[i].pc = "done"
        /\ ~ inv[i].result.duplicate
        /\ inv[i].created = inv[i].result.scan_id
        /\ inv[j].pc = "done"
        /\ inv[j].result.duplicate
        /\ inv[j].result.scan_id = inv[i].created
        /\ inv[j].preLen < inv[i].created
        /\ scans[inv[i].created].state = "COMPLETED"

\* C23: a step of one invocation of setup_scheduled_scan_task leaves every
\* record that is in the store as it is (none is modified, none is deleted);
\* it inserts at most one record, in state SCHEDULED, and only an invocation
\* that has inserted none and that returns with it; a step that ends the
\* invocation in a failure (DoesNotExist, MultipleObjectsReturned, a
\* transaction conflict) writes nothing and the invocation has inserted
\* nothing.
C23_InvocationFrame ==
    [][\A i \in InvIds :
          (inv'[i] # inv[i])
          => /\ Len(scans') \in {Len(scans), Len(scans) + 1}
             /\ \A id \in ScanIds : scans'[id] = scans[id]
             /\ (Len(scans') = Len(scans) + 1)
                => /\ inv[i].created = 0
                   /\ inv'[i].created = Len(scans')
                   /\ inv'[i].pc = "done"
                   /\ scans'[Len(scans')].state = "SCHEDULED"
                   /\ scans'[Len(scans')].trigger = "SCHEDULED"
             /\ (inv[i].created # 0) => scans' = scans
             /\ (inv'[i].pc = "failed")
                => /\ scans' = scans
                   /\ inv'[i].created = 0]_vars

\* C23 witness: one invocation has failed on a transaction conflict and
\* inserted nothing, another has failed on the missing scheduling task, and
\* the store holds what it held at the start.
C23_Witness ==
    \E i, j \in InvIds :
        /\ inv[i].pc = "failed"
        /\ inv[i].error = "TransactionConflict"
        /\ inv[i].created = 0
        /\ inv[j].pc = "failed"
        /\ inv[j].error = "DoesNotExist"
        /\ Len(scans) = inv[i].preLen
        /\ Len(scans) = inv[j].preLen

-----------------------------------------------------------------------------
(* Properties of the registrar and of the start of the workers *)

WorkflowNames == {"scan", "scheduled-scan", "provider-deletion", "tenant-deletion"}

\* C6: once register_workflows has returned, a first or a second time, the
\* engine holds exactly the four definitions scan, scheduled-scan,
\* provider-deletion and tenant-deletion, and at no time any other.
C6_IdempotentRegistration ==
    /\ DOMAIN published \subseteq WorkflowNames
    /\ cmd.regOk >= 1 =>
          /\ DOMAIN published = WorkflowNames
          /\ Cardinality(DOMAIN published) = 4

\* register_workflows has returned twice.
C6_Witness ==
    /\ cmd.regOk = 2
    /\ DOMAIN published = WorkflowNames
    /\ \A n \in DOMAIN published : published[n].version = 2

\* C7: the workers started are always the first ones of the list, in order
\* and once each; when the start of worker K fails, exactly the K-1 before it
\* are started and the failure leaves the command; when start_task_workers
\* returns, all 10 are started and the list of 10 is returned.
C7_FailFastStartup ==
    /\ Len(cmd.started) <= Len(TaskWorkerList)
    /\ cmd.started = SubSeq(TaskWorkerList, 1, Len(cmd.started))
    /\ cmd.failedAt # 0 =>
          /\ Len(cmd.started) = cmd.failedAt - 1
          /\ cmd.error = "WorkerStartError"
          /\ cmd.pc = "exited"
          /\ cmd.exit = "1"
          /\ cmd.returned = 0
    /\ cmd.returned # 0 =>
          /\ cmd.returned = 10
          /\ Len(cmd.started) = 10
          /\ Cardinality({cmd.started[k] : k \in 1..Len(cmd.started)}) = 10
          /\ cmd.failedAt = 0

\* The start of the third worker has failed with two workers started.
C7_Witness ==
    /\ cmd.failedAt = 3
    /\ Len(cmd.started) = 2
    /\ cmd.exit = "1"

\* C13: a task worker is started, or its start attempted, only in a process
\* that published all four workflow definitions and runs without
\* --register-only; a publish failure leaves the command as an error with no
\* worker started; with --register-only the command returns after publishing
\* with no worker started.
C13_NoWorkerBeforeRegistration ==
    /\ ( \/ cmd.pc \in {"starting", "serving"}
         \/ cmd.started # <<>>
         \/ cmd.failedAt # 0 )
       => /\ cmd.reg = 4
          /\ DOMAIN published = WorkflowNames
          /\ ~ cmd.register_only
    /\ cmd.error = "RegistrationError"
       => /\ cmd.reg < 4
          /\ cmd.started = <<>>
          /\ cmd.widx = 0
          /\ cmd.pc = "exited"
          /\ cmd.exit = "1"
    /\ (cmd.register_only /\ cmd.pc = "exited" /\ cmd.error = "")
       => /\ cmd.reg = 4
          /\ cmd.started = <<>>
          /\ cmd.widx = 0
          /\ cmd.exit = "0"

\* The third publish has failed in a run without --register-only.
C13_Witness ==
    /\ ~ cmd.register_only
    /\ cmd.error = "RegistrationError"
    /\ cmd.reg = 2
    /\ cmd.started = <<>>
    /\ cmd.pc = "exited"

-----------------------------------------------------------------------------
(* Properties of the task handlers *)

\* C12: for each of the ten handlers, a call in which a variable lookup or
\* the domain operation raised is logged under the handler's name with the
\* cause and the same exception is raised to the caller; a handler returns a
\* value only when every lookup and the domain operation succeeded, and then
\* the value is the domain operation's.
C12_FailuresReRaised ==
    /\ handler.failure # "" =>
          /\ handler.pc = "raised"
          /\ handler.raised = handler.cause
          /\ handler.logged = <<handler.task, handler.cause>>
          /\ handler.returned = ""
    /\ handler.pc = "returned" =>
          /\ handler.failure = ""
          /\ handler.read = Len(HandlerVariables(handler.task))
          /\ handler.returned \in DomainResults
          /\ handler.logged = <<>>
    /\ handler.pc = "raised" => handler.failure \in {"variable", "domain"}

\* The domain operation of delete-tenant has raised after the lookup of
\* tenant_id succeeded.
C12_Witness ==
    /\ handler.task = "delete-tenant"
    /\ handler.pc = "raised"
    /\ handler.failure = "domain"
    /\ handler.read = 1

\* C24: when the start of worker K fails in start_task_workers, the step that
\* carries the failure out of the command (the raise of the loop and the
\* raise of handle's except) stops no worker: the workers 1..K-1 are exactly
\* the started ones before and after it; and nothing else in a run of the
\* command takes a worker out of the started ones.
C24_StartedWorkersKept ==
    [][/\ (cmd.failedAt = 0 /\ cmd'.failedAt # 0)
          => /\ cmd.pc = "starting"
             /\ cmd'.pc = "exited"
             /\ cmd'.failedAt = cmd.widx
             /\ cmd.started = SubSeq(TaskWorkerList, 1, cmd'.failedAt - 1)
             /\ cmd'.started = cmd.started
       /\ (cmd'.pc # "init")
          => /\ Len(cmd'.started) >= Len(cmd.started)
             /\ SubSeq(cmd'.started, 1, Len(cmd.started)) = cmd.started]_vars

\* C24 witness: the start of the fifth worker has failed, the command has
\* ended as an error and the first four workers are the started ones.
C24_Witness ==
    /\ cmd.pc = "exited"
    /\ cmd.error = "WorkerStartError"
    /\ cmd.failedAt = 5
    /\ cmd.started = SubSeq(TaskWorkerList, 1, 4)

=============================================================================
